---- MODULE Spec2Model ----
(***************************************************************************)
(* Veritas Lens: the analysis pipeline of AnalysisDashboard (src/App.tsx)  *)
(* and the two services it calls (services/geminiService).                 *)
(*                                                                         *)
(* One mounted AnalysisDashboard is modelled.  Its React state is the      *)
(* variables file, analysisState, report, activeTab and visualFilter.      *)
(* Every invocation of the async function runAnalysis is a record of runs: *)
(* its program counter (the source line it is about to execute or the      *)
(* await it is suspended at), the file its closure captured, its locals    *)
(* and the promise it returned.                                            *)
(* JavaScript runs one task at a time: `running` is the run whose          *)
(* synchronous segment is executing (0 when the event loop is idle), and   *)
(* user events, timers and service completions are taken only when it is   *)
(* 0.  Each statement of runAnalysis is one step, so every value that the  *)
(* state setters produce is a state of the model.                          *)
(*                                                                         *)
(* Not modelled: previewUrl (an object URL used by the markup only),       *)
(* contextText (it only flows into the prompt sent to the remote model,    *)
(* whose answer is any of Responses), the wall-clock text that addLog puts *)
(* between the brackets of a log line (written "[time]"), and logout,      *)
(* which unmounts the dashboard.  The clock advances when a timer fires;   *)
(* the other completions are taken to arrive in the same millisecond.      *)
(***************************************************************************)
EXTENDS Integers, Sequences, FiniteSets, TLC

VARIABLES
    file,           \* useState<File | null>: NoFile, else a key of FileTable
    analysisState,  \* useState<AnalysisState>
    report,         \* useState<ForensicReport | null>: <<>> is null, else <<r>>
    activeTab,      \* useState<ModuleTab>
    visualFilter,   \* useState<'normal' | ...>
    apiKey,         \* GEMINI_API_KEY is non-empty
    now,            \* the millisecond clock read by Date.now()
    runs,           \* the invocations of runAnalysis, in call order
    running,        \* index in runs of the executing segment, 0 when idle
    normIn,         \* input of the report construction checked on its own
    normOut         \* its output: <<>> before it is applied, else <<r>>

vars == <<file, analysisState, report, activeTab, visualFilter,
          apiKey, now, runs, running, normIn, normOut>>

-----------------------------------------------------------------------------
(* Bounds *)

MaxRuns == 2

-----------------------------------------------------------------------------
(* Text helpers *)

RECURSIVE Join(_)
Join(s) == IF s = <<>> THEN "" ELSE Head(s) \o Join(Tail(s))

Min(a, b) == IF a < b THEN a ELSE b

\* String.prototype.startsWith on a string held as a sequence of characters
StartsWith(s, p) == Len(s) >= Len(p) /\ SubSeq(s, 1, Len(p)) = p

\* String.prototype.substring(a, b) for 0 <= a <= b
Substring(s, a, b) == SubSeq(s, a + 1, Min(b, Len(s)))

\* Number.prototype.toFixed(2) of num/den (num >= 0, den > 0): the nearest
\* multiple of 0.01, the larger one on a tie
ToFixed2(num, den) ==
    LET h == 100 * (num \div den) + (200 * (num % den) + den) \div (2 * den)
        frac == h % 100
    IN  ToString(h \div 100) \o "." \o
        (IF frac < 10 THEN "0" ELSE "") \o ToString(frac)

BytesPerMB == 1024 * 1024

\* (file.size / 1024 / 1024).toFixed(2)
SizeMB(f) == ToFixed2(f.size, BytesPerMB)

-----------------------------------------------------------------------------
(* Files the user can select.  type is the declared content type, kept as  *)
(* a sequence of characters so that startsWith is computed.                *)

ImagePng == <<"i","m","a","g","e","/","p","n","g">>
VideoMp4 == <<"v","i","d","e","o","/","m","p","4">>
AudioWav == <<"a","u","d","i","o","/","w","a","v">>
TextPlain == <<"t","e","x","t","/","p","l","a","i","n">>
\* a type that has "image" in it but does not start with it
AppImage == <<"a","p","p","l","i","c","a","t","i","o","n","/","x","-","i","m","a","g","e">>
NoType == <<>>

FileTable ==
    [f1 |-> [name |-> "sample.png", type |-> ImagePng, size |-> 2097152, content |-> 1],
     f2 |-> [name |-> "clip.mp4",   type |-> VideoMp4, size |-> 131072,  content |-> 2],
     f3 |-> [name |-> "voice.wav",  type |-> AudioWav, size |-> 5767,    content |-> 3],
     f4 |-> [name |-> "notes.txt",  type |-> TextPlain, size |-> 0,      content |-> 4],
     f5 |-> [name |-> "blob",       type |-> NoType,   size |-> 52428800, content |-> 1],
     f6 |-> [name |-> "disk.img",   type |-> AppImage, size |-> 1048576, content |-> 2]]

NoFile == "null"
AllFiles == DOMAIN FileTable
\* the files offered to the file input in the pipeline specification
Files == {"f1", "f2"}
File(k) == FileTable[k]

MediaType == [IMAGE |-> "IMAGE", VIDEO |-> "VIDEO", AUDIO |-> "AUDIO", UNKNOWN |-> "UNKNOWN"]
ModuleTab == {"DASHBOARD", "VISUAL_LAB", "SEMANTIC", "METADATA", "PROVENANCE"}
VisualFilters == {"normal", "highpass", "edges", "inverted"}
\* the tabs and filter buttons clicked in the pipeline specification
ClickedTabs == {"DASHBOARD", "VISUAL_LAB"}
ClickedFilters == {"normal", "highpass"}

-----------------------------------------------------------------------------
(* Errors.  `${error}` renders an Error as "name: message" and a rejection *)
(* with a plain string as that string.                                     *)

ErrorText(e) == IF e.name = "" THEN e.message ELSE e.name \o ": " \o e.message

ApiKeyMissing == [name |-> "Error", message |-> "API Key is missing."]
JsonSyntaxError == [name |-> "SyntaxError", message |-> "Unexpected token in JSON"]
DigestErrors == {[name |-> "NotReadableError", message |-> "The file could not be read"]}
GenerateErrors == {[name |-> "", message |-> "network timeout"]}

-----------------------------------------------------------------------------
(* Digest Service: calculateFileHash.  SHA-256 is an external primitive;   *)
(* it is represented by a fixed function of the content to 64 hex digits.  *)

HexDigits == <<"0","1","2","3","4","5","6","7","8","9","a","b","c","d","e","f">>
HashLen == 64

calculateFileHash(f) ==
    [k \in 1..HashLen |-> HexDigits[((f.content * 7 + k * (f.content + 2)) % 16) + 1]]

-----------------------------------------------------------------------------
(* Classification Service: analyzeMedia.  A JSON object is a function from *)
(* its keys to values; a key whose value is undefined is not in the        *)
(* domain.  (A JSON null behaves as an omitted key in all the code below:  *)
(* it is falsy for || and spreads to nothing.)                             *)

EmptyObj == [k \in {} |-> ""]
Has(o, k) == k \in DOMAIN o
Merge(a, b) == [k \in DOMAIN a \cup DOMAIN b |-> IF k \in DOMAIN b THEN b[k] ELSE a[k]]

\* a || d, by the type of a: 0, false and '' are falsy, arrays and objects never
OrNum(o, k, d) == IF Has(o, k) /\ o[k] # 0 THEN o[k] ELSE d
OrBool(o, k, d) == IF Has(o, k) /\ o[k] THEN TRUE ELSE d
OrStr(o, k, d) == IF Has(o, k) /\ o[k] # "" THEN o[k] ELSE d
OrObj(o, k, d) == IF Has(o, k) THEN o[k] ELSE d

\* response.text of generateContent: no text, text that is not JSON, or the
\* text of a JSON object (held as the object it denotes)
NoText == [kind |-> "none"]
Garbage == [kind |-> "garbage"]
JsonText(o) == [kind |-> "json", value |-> o]

\* JSON.parse(response.text || '{}')
ParseThrows(resp) == resp.kind = "garbage"
ParseJSON(resp) == IF resp.kind = "json" THEN resp.value ELSE EmptyObj

PassedThrough == {"authenticityScore", "isManipulated", "semanticMismatchDetected",
                  "semanticAnalysisText", "reasoning"}
DefaultedArrays == {"manipulationType", "ensembleData", "suspiciousRegions"}

\* analyzeMedia without the "|| []" and "|| {}" of its return statement
analyzeMediaReturn_NoDefaults(json) ==
    [k \in DOMAIN json \cap (PassedThrough \cup DefaultedArrays \cup {"metadata"}) |-> json[k]]

\* the object analyzeMedia returns for a parsed response
analyzeMediaReturn(json) ==
    [k \in (DOMAIN json \cap PassedThrough) \cup DefaultedArrays \cup {"metadata"} |->
        IF Has(json, k) THEN json[k]
        ELSE IF k = "metadata" THEN EmptyObj ELSE <<>>]

-----------------------------------------------------------------------------
(* Report construction (runAnalysis, Step 4)                                *)

IdModulus == 1000000

\* Date.now().toString().slice(-6)
Last6(t) ==
    IF t < IdModulus THEN ToString(t)
    ELSE LET r == t % IdModulus
         IN  (IF r < 10 THEN "00000" ELSE IF r < 100 THEN "0000"
              ELSE IF r < 1000 THEN "000" ELSE IF r < 10000 THEN "00"
              ELSE IF r < 100000 THEN "0" ELSE "") \o ToString(r)

\* the derivation with includes in place of startsWith
DeriveType_Includes(t) ==
    LET Includes(p) == \E k \in 0..(Len(t) - Len(p)) : SubSeq(t, k + 1, k + Len(p)) = p
    IN  IF Includes(<<"i","m","a","g","e">>) THEN MediaType.IMAGE
        ELSE IF Includes(<<"v","i","d","e","o">>) THEN MediaType.VIDEO
        ELSE IF Includes(<<"a","u","d","i","o">>) THEN MediaType.AUDIO
        ELSE MediaType.UNKNOWN

\* let type = ...; if (file.type.startsWith('image')) ...
DeriveType(t) ==
    IF StartsWith(t, <<"i","m","a","g","e">>) THEN MediaType.IMAGE
    ELSE IF StartsWith(t, <<"v","i","d","e","o">>) THEN MediaType.VIDEO
    ELSE IF StartsWith(t, <<"a","u","d","i","o">>) THEN MediaType.AUDIO
    ELSE MediaType.UNKNOWN

ComputedMetadata(f) ==
    [originalSize |-> SizeMB(f) \o " MB", mimeType |-> Join(f.type)]

\* the spread written after the computed keys, so that the payload wins
ReportMetadata_RawWins(ai, f) == Merge(ComputedMetadata(f), OrObj(ai, "metadata", EmptyObj))

\* metadata: { ...aiResult.metadata, originalSize: ..., mimeType: ... }
ReportMetadata(ai, f) == Merge(OrObj(ai, "metadata", EmptyObj), ComputedMetadata(f))

\* const fullReport: ForensicReport = { ... }; timestamp is the clock value
\* whose ISO-8601 text toISOString() produces
FullReport(ai, f, type, hash, t) ==
    LET base == [id |-> "CASE-" \o Last6(t),
                 fileName |-> f.name,
                 fileType |-> type,
                 timestamp |-> t,
                 fileHash |-> hash,
                 authenticityScore |-> OrNum(ai, "authenticityScore", 0),
                 isManipulated |-> OrBool(ai, "isManipulated", FALSE),
                 ensembleData |-> OrObj(ai, "ensembleData", <<>>),
                 semanticMismatchDetected |-> OrBool(ai, "semanticMismatchDetected", FALSE),
                 semanticAnalysisText |-> OrStr(ai, "semanticAnalysisText", ""),
                 reasoning |-> OrStr(ai, "reasoning", "Analysis failed."),
                 suspiciousRegions |-> OrObj(ai, "suspiciousRegions", <<>>),
                 metadata |-> ReportMetadata(ai, f)]
    IN  IF Has(ai, "manipulationType")
        THEN Merge(base, [manipulationType |-> ai.manipulationType])
        ELSE base

ReportFields == {"id", "fileName", "fileType", "timestamp", "fileHash",
                 "authenticityScore", "isManipulated", "manipulationType",
                 "ensembleData", "semanticMismatchDetected", "semanticAnalysisText",
                 "reasoning", "suspiciousRegions", "metadata"}

-----------------------------------------------------------------------------
(* The dashboard state                                                      *)

IdleState == [isAnalyzing |-> FALSE, progress |-> 0, currentStep |-> "IDLE", logs |-> <<>>]
InitState == [isAnalyzing |-> TRUE, progress |-> 0, currentStep |-> "INIT",
              logs |-> <<"Initializing core modules...">>]

\* addLog that replaces the log by the new line
addLog_Overwrites(prev, msg) == [prev EXCEPT !.logs = <<"[time] " \o msg>>]

\* setAnalysisState(prev => ({...prev, logs: [...prev.logs, `[${time}] ${msg}`]}))
addLog(prev, msg) == [prev EXCEPT !.logs = Append(@, "[time] " \o msg)]

\* setAnalysisState(prev => ({ ...prev, progress: p, currentStep: step }))
SetStage(prev, p, step) == [prev EXCEPT !.progress = p, !.currentStep = step]

ClockStart == 1762 * IdModulus + 999400
TimerDelay == 600

InFlight(r) == r.pc # "done"

\* the frame of one invocation of runAnalysis.  digestCalls and
\* classifyCalls count its calls of the two services and pauses the timers
\* of it that have fired.  report0, overlapped, superseded and intact record
\* what happened around the run: the report at its start, whether another
\* run was in flight with it, whether a file was selected during it, and
\* whether nothing but the run itself has written report since it started.
NewRun(pc, promise) ==
    [pc |-> pc, file |-> file,
     hash |-> <<>>, type |-> "", aiResult |-> <<>>, fullReport |-> <<>>,
     error |-> <<>>, promise |-> promise,
     digestCalls |-> 0, classifyCalls |-> 0, pauses |-> 0,
     report0 |-> report,
     overlapped |-> \E j \in DOMAIN runs : InFlight(runs[j]),
     superseded |-> FALSE,
     intact |-> TRUE]

\* the lines of the try block of runAnalysis (135-188)
TryBlock == {"L137", "L138", "await138", "L139", "L140", "L143", "await143",
             "L144", "L145", "L147", "await147", "L148", "L149", "L152", "L153",
             "L158", "await_reader", "await_generate", "L159", "L160", "L163",
             "L184", "L185", "L186", "L187"}

\* runAnalysis without its try/catch
Raise_Uncaught(r, e) == [r EXCEPT !.pc = "done", !.error = <<e>>, !.promise = "rejected"]

\* an exception e raised in run r: caught by the catch of runAnalysis when
\* the run is inside the try block, else it rejects the returned promise
Raise(r, e) ==
    IF r.pc \in TryBlock
    THEN [r EXCEPT !.pc = "L191", !.error = <<e>>]
    ELSE [r EXCEPT !.pc = "done", !.error = <<e>>, !.promise = "rejected"]

\* runAnalysis returns: its locals are gone and its promise is fulfilled
Return(r) ==
    [r EXCEPT !.pc = "done", !.promise = "fulfilled", !.hash = <<>>, !.type = "",
              !.aiResult = <<>>, !.fullReport = <<>>]

Init ==
    /\ file = NoFile
    /\ analysisState = IdleState
    /\ report = <<>>
    /\ activeTab = "DASHBOARD"
    /\ visualFilter = "normal"
    /\ apiKey \in BOOLEAN
    /\ now = ClockStart
    /\ runs = <<>>
    /\ running = 0
    /\ normIn = <<>>
    /\ normOut = <<>>

ui == <<file, activeTab, visualFilter>>
env == <<apiKey, now, normIn, normOut>>

-----------------------------------------------------------------------------
(* User events                                                              *)

\* handleFileSelect without the test of e.target.files[0]
handleFileSelect_NoGuard(sel) ==
    /\ running = 0
    /\ file' = sel
    /\ report' = <<>>
    /\ analysisState' = IdleState
    /\ runs' = [j \in DOMAIN runs |->
                  [runs[j] EXCEPT !.superseded = @ \/ InFlight(runs[j]),
                                  !.intact = FALSE]]
    /\ UNCHANGED <<activeTab, visualFilter, running, env>>

\* handleFileSelect: sel is e.target.files[0], NoFile for an empty selection
handleFileSelect(sel) ==
    /\ running = 0
    /\ IF sel # NoFile
       THEN /\ file' = sel
            /\ report' = <<>>
            /\ analysisState' = IdleState
            /\ runs' = [j \in DOMAIN runs |->
                          [runs[j] EXCEPT !.superseded = @ \/ InFlight(runs[j]),
                                          !.intact = FALSE]]
       ELSE UNCHANGED <<file, report, analysisState, runs>>
    /\ UNCHANGED <<activeTab, visualFilter, running, env>>

\* onClick of a sidebar tab (disabled={!report}): report && setActiveTab(tab.id)
clickTab(tab) ==
    /\ running = 0
    /\ report # <<>>
    /\ activeTab' = tab
    /\ UNCHANGED <<file, analysisState, report, visualFilter, runs, running, env>>

\* onClick of a filter button; the buttons are rendered in the visual lab
\* of the report dashboard (report && !isAnalyzing, activeTab VISUAL_LAB)
setVisualFilter(f) ==
    /\ running = 0
    /\ report # <<>> /\ ~analysisState.isAnalyzing /\ activeTab = "VISUAL_LAB"
    /\ visualFilter' = f
    /\ UNCHANGED <<file, analysisState, report, activeTab, runs, running, env>>

-----------------------------------------------------------------------------
(* runAnalysis                                                              *)

\* runAnalysis without "if (!file) return": file.name throws in the try block
runAnalysis_NoFileGuard ==
    /\ running = 0
    /\ Len(runs) < MaxRuns
    /\ analysisState' = InitState
    /\ runs' = Append(runs, [NewRun(IF file = NoFile THEN "L191" ELSE "L137", "pending")
                                EXCEPT !.error = IF file = NoFile
                                                 THEN <<[name |-> "TypeError",
                                                         message |-> "file is null"]>>
                                                 ELSE <<>>])
    /\ running' = Len(runs) + 1
    /\ UNCHANGED <<report, ui, env>>

\* runAnalysis that also clears the report when a run starts
runAnalysis_ClearsReport ==
    /\ running = 0
    /\ Len(runs) < MaxRuns
    /\ file # NoFile
    /\ analysisState' = InitState
    /\ report' = <<>>
    /\ runs' = Append(runs, NewRun("L137", "pending"))
    /\ running' = Len(runs) + 1
    /\ UNCHANGED <<ui, env>>

\* lines 130-133: the call, the file guard and the first state update
runAnalysis ==
    /\ running = 0
    /\ Len(runs) < MaxRuns
    /\ IF file = NoFile
       THEN /\ runs' = Append(runs, NewRun("done", "fulfilled"))
            /\ UNCHANGED <<analysisState, running>>
       ELSE /\ analysisState' = InitState
            /\ runs' = Append([j \in DOMAIN runs |->
                                  IF InFlight(runs[j])
                                  THEN [runs[j] EXCEPT !.overlapped = TRUE]
                                  ELSE runs[j]],
                              NewRun("L137", "pending"))
            /\ running' = Len(runs) + 1
    /\ UNCHANGED <<report, ui, env>>

At(i, l) == i \in DOMAIN runs /\ running = i /\ runs[i].pc = l
Suspended(i, l) == i \in DOMAIN runs /\ running = 0 /\ runs[i].pc = l
Goto(i, l) == runs' = [runs EXCEPT ![i].pc = l]

\* a statement of run i that only updates analysisState
StateStep(i, from, to, next) ==
    /\ At(i, from)
    /\ analysisState' = next
    /\ Goto(i, to)
    /\ UNCHANGED <<report, ui, env, running>>

Line137(i) ==
    StateStep(i, "L137", "L138",
              addLog(analysisState,
                     "Hashing " \o File(runs[i].file).name \o " (" \o
                     SizeMB(File(runs[i].file)) \o "MB)..."))

\* line 138: calculateFileHash(file) is called and awaited
Line138(i) ==
    /\ At(i, "L138")
    /\ runs' = [runs EXCEPT ![i].pc = "await138", ![i].digestCalls = @ + 1]
    /\ running' = 0
    /\ UNCHANGED <<analysisState, report, ui, env>>

DigestResolves(i) ==
    /\ Suspended(i, "await138")
    /\ runs' = [runs EXCEPT ![i].pc = "L139",
                            ![i].hash = calculateFileHash(File(runs[i].file))]
    /\ running' = i
    /\ UNCHANGED <<analysisState, report, ui, env>>

\* file.arrayBuffer() or crypto.subtle.digest rejects
DigestRejects(i, e) ==
    /\ Suspended(i, "await138")
    /\ runs' = [runs EXCEPT ![i] = Raise(@, e)]
    /\ running' = IF runs'[i].pc = "done" THEN 0 ELSE i
    /\ UNCHANGED <<analysisState, report, ui, env>>

Line139(i) == StateStep(i, "L139", "L140", SetStage(analysisState, 20, "HASHING"))

Line140(i) ==
    StateStep(i, "L140", "L143",
              addLog(analysisState,
                     "SHA-256: " \o Join(Substring(runs[i].hash, 0, 16)) \o "..."))

\* lines 143 and 147: await new Promise(r => setTimeout(r, 600))
AwaitTimer(i) ==
    /\ \/ At(i, "L143") /\ Goto(i, "await143")
       \/ At(i, "L147") /\ Goto(i, "await147")
    /\ running' = 0
    /\ UNCHANGED <<analysisState, report, ui, env>>

\* the timer of line 143 or 147 fires, TimerDelay after it was set
TimerFires(i) ==
    /\ \/ Suspended(i, "await143") /\
             runs' = [runs EXCEPT ![i].pc = "L144", ![i].pauses = @ + 1]
       \/ Suspended(i, "await147") /\
             runs' = [runs EXCEPT ![i].pc = "L148", ![i].pauses = @ + 1]
    /\ running' = i
    /\ now' = now + TimerDelay
    /\ UNCHANGED <<analysisState, report, ui, apiKey, normIn, normOut>>

Line144(i) ==
    StateStep(i, "L144", "L145",
              addLog(analysisState, "Loading FaceForensics++ (Xception) weights..."))

\* line 145 followed by line 148: the second pause is left out
Line145_SkipsPause(i) ==
    StateStep(i, "L145", "L148", SetStage(analysisState, 40, "LOADING_MODELS"))

Line145(i) == StateStep(i, "L145", "L147", SetStage(analysisState, 40, "LOADING_MODELS"))

Line148(i) ==
    StateStep(i, "L148", "L149",
              addLog(analysisState, "Initializing DeepFake-o-Matic ensemble..."))

\* line 149 with a progress value below the one of line 145
Line149_Regress(i) == StateStep(i, "L149", "L152", SetStage(analysisState, 30, "LOADING_MODELS"))

Line149(i) == StateStep(i, "L149", "L152", SetStage(analysisState, 50, "LOADING_MODELS"))

Line152(i) ==
    StateStep(i, "L152", "L153",
              addLog(analysisState, "Sending tensors to analysis engine..."))

\* lines 153-156
Line153(i) ==
    /\ At(i, "L153")
    /\ runs' = [runs EXCEPT ![i].pc = "L158",
                            ![i].type = DeriveType(File(runs[i].file).type)]
    /\ UNCHANGED <<analysisState, report, ui, env, running>>

\* raw payloads: Scenario A of the spec, and one with falsy values, a key
\* the schema does not have and metadata that names the two computed keys.
\* Responses are the answers of generateContent in the pipeline specification
ScenarioA ==
    [authenticityScore |-> 92, isManipulated |-> FALSE,
     ensembleData |-> <<[modelName |-> "X", score |-> 10,
                         confidence |-> "LOW", focusArea |-> "noise"]>>,
     reasoning |-> "no anomalies"]
Hostile ==
    [authenticityScore |-> 0, isManipulated |-> TRUE,
     manipulationType |-> <<"faceswap">>, reasoning |-> "",
     metadata |-> [originalSize |-> "9999 MB", mimeType |-> "text/html",
                   estimatedDevice |-> "Pixel 8"],
     debug |-> "x"]
Responses == {NoText, Garbage, JsonText(Hostile)}

\* line 158: analyzeMedia(file, type, contextText) is called and awaited;
\* without an API key it throws before its first await
Line158(i) ==
    /\ At(i, "L158")
    /\ IF apiKey
       THEN /\ runs' = [runs EXCEPT ![i].pc = "await_reader", ![i].classifyCalls = @ + 1]
            /\ running' = 0
       ELSE /\ runs' = [runs EXCEPT ![i] = Raise([@ EXCEPT !.classifyCalls = @ + 1],
                                                 ApiKeyMissing)]
            /\ running' = IF runs'[i].pc = "done" THEN 0 ELSE i
    /\ UNCHANGED <<analysisState, report, ui, env>>

\* fileToGenerativePart: onloadend of the FileReader.  After a failed read
\* reader.result is null, the callback throws and the promise is never
\* settled; after a successful one analyzeMedia goes on to generateContent
ReaderLoadEnds(i, ok) ==
    /\ Suspended(i, "await_reader")
    /\ Goto(i, IF ok THEN "await_generate" ELSE "hung")
    /\ UNCHANGED <<analysisState, report, ui, env, running>>

\* generateContent resolves; analyzeMedia parses the text and returns
GenerateResolves(i, resp) ==
    /\ Suspended(i, "await_generate")
    /\ runs' = [runs EXCEPT ![i] =
                  IF ParseThrows(resp)
                  THEN Raise(@, JsonSyntaxError)
                  ELSE [@ EXCEPT !.pc = "L159",
                                 !.aiResult = <<analyzeMediaReturn(ParseJSON(resp))>>]]
    /\ running' = IF runs'[i].pc = "done" THEN 0 ELSE i
    /\ UNCHANGED <<analysisState, report, ui, env>>

\* generateContent rejects (network, authentication)
GenerateRejects(i, e) ==
    /\ Suspended(i, "await_generate")
    /\ runs' = [runs EXCEPT ![i] = Raise(@, e)]
    /\ running' = IF runs'[i].pc = "done" THEN 0 ELSE i
    /\ UNCHANGED <<analysisState, report, ui, env>>

Line159(i) == StateStep(i, "L159", "L160", SetStage(analysisState, 90, "INFERENCE"))

Line160(i) ==
    StateStep(i, "L160", "L163",
              addLog(analysisState, "Inference complete. Aggregating results..."))

\* lines 163-182 reading the file of the current state, not the captured one
Line163_CurrentFile(i) ==
    /\ At(i, "L163")
    /\ runs' = [runs EXCEPT ![i].pc = "L184",
                            ![i].fullReport =
                                <<FullReport(runs[i].aiResult[1], File(file),
                                             runs[i].type, runs[i].hash, now)>>]
    /\ UNCHANGED <<analysisState, report, ui, env, running>>

\* lines 163-182
Line163(i) ==
    /\ At(i, "L163")
    /\ runs' = [runs EXCEPT ![i].pc = "L184",
                            ![i].fullReport =
                                <<FullReport(runs[i].aiResult[1], File(runs[i].file),
                                             runs[i].type, runs[i].hash, now)>>]
    /\ UNCHANGED <<analysisState, report, ui, env, running>>

\* line 184: setReport(fullReport)
Line184(i) ==
    /\ At(i, "L184")
    /\ report' = runs[i].fullReport
    /\ runs' = [j \in DOMAIN runs |->
                  IF j = i THEN [runs[j] EXCEPT !.pc = "L185"]
                  ELSE [runs[j] EXCEPT !.intact = FALSE]]
    /\ UNCHANGED <<analysisState, ui, env, running>>

Line185(i) ==
    StateStep(i, "L185", "L186",
              [analysisState EXCEPT !.progress = 100, !.currentStep = "COMPLETE",
                                    !.isAnalyzing = FALSE])

Line186(i) ==
    StateStep(i, "L186", "L187", addLog(analysisState, "Report generated successfully."))

\* line 187 and the return: the promise of runAnalysis is fulfilled
Line187(i) ==
    /\ At(i, "L187")
    /\ activeTab' = "DASHBOARD"
    /\ runs' = [runs EXCEPT ![i] = Return(@)]
    /\ running' = 0
    /\ UNCHANGED <<file, visualFilter, analysisState, report, env>>

\* a catch block that also clears the report
Line191_ClearsReport(i) ==
    /\ At(i, "L191")
    /\ analysisState' = addLog(analysisState, "CRITICAL ERROR: " \o ErrorText(runs[i].error[1]))
    /\ report' = <<>>
    /\ Goto(i, "L192")
    /\ UNCHANGED <<ui, env, running>>

\* the catch block, lines 189-193
Line191(i) ==
    StateStep(i, "L191", "L192",
              addLog(analysisState, "CRITICAL ERROR: " \o ErrorText(runs[i].error[1])))

\* a catch block that also puts progress back to 0
Line192_ResetsProgress(i) ==
    /\ At(i, "L192")
    /\ analysisState' = [analysisState EXCEPT !.isAnalyzing = FALSE, !.progress = 0]
    /\ runs' = [runs EXCEPT ![i] = Return(@)]
    /\ running' = 0
    /\ UNCHANGED <<report, ui, env>>

\* a catch block that leaves isAnalyzing as it is
Line192_KeepsAnalyzing(i) ==
    /\ At(i, "L192")
    /\ runs' = [runs EXCEPT ![i] = Return(@)]
    /\ running' = 0
    /\ UNCHANGED <<analysisState, report, ui, env>>

Line192(i) ==
    /\ At(i, "L192")
    /\ analysisState' = [analysisState EXCEPT !.isAnalyzing = FALSE]
    /\ runs' = [runs EXCEPT ![i] = Return(@)]
    /\ running' = 0
    /\ UNCHANGED <<report, ui, env>>

-----------------------------------------------------------------------------
(* The pipeline specification                                               *)

RunIds == 1..MaxRuns

Next ==
    \/ \E sel \in Files \cup {NoFile} : handleFileSelect(sel)
    \/ \E tab \in ClickedTabs : clickTab(tab)
    \/ \E f \in ClickedFilters : setVisualFilter(f)
    \/ runAnalysis
    \/ \E i \in RunIds : Line137(i)
    \/ \E i \in RunIds : Line138(i)
    \/ \E i \in RunIds : DigestResolves(i)
    \/ \E i \in RunIds, e \in DigestErrors : DigestRejects(i, e)
    \/ \E i \in RunIds : Line139(i)
    \/ \E i \in RunIds : Line140(i)
    \/ \E i \in RunIds : AwaitTimer(i)
    \/ \E i \in RunIds : TimerFires(i)
    \/ \E i \in RunIds : Line144(i)
    \/ \E i \in RunIds : Line145(i)
    \/ \E i \in RunIds : Line148(i)
    \/ \E i \in RunIds : Line149(i)
    \/ \E i \in RunIds : Line152(i)
    \/ \E i \in RunIds : Line153(i)
    \/ \E i \in RunIds : Line158(i)
    \/ \E i \in RunIds, ok \in BOOLEAN : ReaderLoadEnds(i, ok)
    \/ \E i \in RunIds, resp \in Responses : GenerateResolves(i, resp)
    \/ \E i \in RunIds, e \in GenerateErrors : GenerateRejects(i, e)
    \/ \E i \in RunIds : Line159(i)
    \/ \E i \in RunIds : Line160(i)
    \/ \E i \in RunIds : Line163(i)
    \/ \E i \in RunIds : Line184(i)
    \/ \E i \in RunIds : Line185(i)
    \/ \E i \in RunIds : Line186(i)
    \/ \E i \in RunIds : Line187(i)
    \/ \E i \in RunIds : Line191(i)
    \/ \E i \in RunIds : Line192(i)

Spec == Init /\ [][Next]_vars

-----------------------------------------------------------------------------
(* The pipeline with its scheduling.  The event loop runs a continuation    *)
(* once its promise is settled or its timer is due, and a synchronous       *)
(* segment runs to its next await.  The services are taken to answer or to  *)
(* fail; a FileReader that ends without a result leaves the promise of      *)
(* fileToGenerativePart unsettled, and the call of analyzeMedia then never  *)
(* returns (pc "hung").                                                     *)

\* a step of run i: a statement of it, or the completion it is waiting for
RunStep(i) ==
    \/ Line137(i) \/ Line138(i) \/ Line139(i) \/ Line140(i)
    \/ Line144(i) \/ Line145(i) \/ Line148(i) \/ Line149(i)
    \/ Line152(i) \/ Line153(i) \/ Line158(i) \/ Line159(i)
    \/ Line160(i) \/ Line163(i) \/ Line184(i) \/ Line185(i)
    \/ Line186(i) \/ Line187(i) \/ Line191(i) \/ Line192(i)
    \/ AwaitTimer(i) \/ TimerFires(i)
    \/ DigestResolves(i) \/ (\E e \in DigestErrors : DigestRejects(i, e))
    \/ (\E ok \in BOOLEAN : ReaderLoadEnds(i, ok))
    \/ (\E resp \in Responses : GenerateResolves(i, resp))
    \/ (\E e \in GenerateErrors : GenerateRejects(i, e))

\* the events that start, reset or advance a run; the tab and filter buttons,
\* which touch neither runs nor analysisState, are left out
NextFair ==
    \/ \E sel \in Files : handleFileSelect(sel)
    \/ runAnalysis
    \/ \E i \in RunIds : RunStep(i)

SpecFair == Init /\ [][NextFair]_vars /\ WF_vars(\E i \in RunIds : RunStep(i))

-----------------------------------------------------------------------------
(* The pipeline on each kind of file: a file of FileTable has been          *)
(* selected and the scan button is the only control used.                   *)

InitKinds ==
    /\ file \in AllFiles
    /\ analysisState = IdleState
    /\ report = <<>>
    /\ activeTab = "DASHBOARD"
    /\ visualFilter = "normal"
    /\ apiKey = TRUE
    /\ now = ClockStart
    /\ runs = <<>>
    /\ running = 0
    /\ normIn = <<>>
    /\ normOut = <<>>

NextKinds ==
    \/ runAnalysis
    \/ \E i \in RunIds : RunStep(i)

SpecKinds == InitKinds /\ [][NextKinds]_vars

-----------------------------------------------------------------------------
(* The pipeline driven through the controls the dashboard renders.  The     *)
(* markup is a function of the state, and an event reaches a handler only   *)
(* through an element of the last render: the file input exists when file   *)
(* is null, the scan button when a file is selected, no report is shown and *)
(* no analysis is running.                                                   *)

\* the scan button rendered although an analysis is running
ScanButton_ShownWhileAnalyzing ==
    /\ file # NoFile /\ report = <<>>
    /\ runAnalysis

\* {file && !report && !analysisState.isAnalyzing && ... onClick={runAnalysis}}
ScanButton ==
    /\ file # NoFile /\ report = <<>> /\ ~analysisState.isAnalyzing
    /\ runAnalysis

\* {!file && ... <input type="file" onChange={handleFileSelect} />}
UploadInput(sel) ==
    /\ file = NoFile
    /\ handleFileSelect(sel)

NextUI ==
    \/ \E sel \in Files \cup {NoFile} : UploadInput(sel)
    \/ ScanButton
    \/ \E tab \in ClickedTabs : clickTab(tab)
    \/ \E f \in ClickedFilters : setVisualFilter(f)
    \/ \E i \in RunIds : RunStep(i)

SpecUI == Init /\ [][NextUI]_vars

-----------------------------------------------------------------------------
(* The report construction on its own: analyzeMedia's return statement and *)
(* the fullReport literal applied to every raw payload of RawPayloads.      *)

Region == [x |-> 10, y |-> 20, width |-> 30, height |-> 40, label |-> "face", confidence |-> 88]

\* per key of the response schema, the values a payload may give it (one
\* falsy and one truthy where the type has both); "debug" is not in the schema
FieldValues ==
    [authenticityScore |-> {0, 92},
     isManipulated |-> {FALSE, TRUE},
     manipulationType |-> {<<"faceswap">>},
     ensembleData |-> {ScenarioA.ensembleData},
     semanticMismatchDetected |-> {FALSE, TRUE},
     semanticAnalysisText |-> {"", "caption does not match"},
     reasoning |-> {"", "no anomalies"},
     suspiciousRegions |-> {<<Region>>},
     metadata |-> {EmptyObj, [estimatedDevice |-> "Pixel 8"], Hostile.metadata},
     debug |-> {"x"}]

RECURSIVE PayloadsOver(_)
PayloadsOver(K) ==
    IF K = {} THEN {EmptyObj}
    ELSE LET k == CHOOSE x \in K : TRUE
             rest == PayloadsOver(K \ {k})
         IN  rest \cup {Merge(p, [x \in {k} |-> v]) : p \in rest, v \in FieldValues[k]}

RawPayloads == PayloadsOver(DOMAIN FieldValues)

NormInputs ==
    {[resp |-> r, file |-> f] : r \in {NoText} \cup {JsonText(p) : p \in RawPayloads},
                                f \in AllFiles}

InitNorm ==
    /\ file = NoFile
    /\ analysisState = IdleState
    /\ report = <<>>
    /\ activeTab = "DASHBOARD"
    /\ visualFilter = "normal"
    /\ apiKey = TRUE
    /\ now = ClockStart
    /\ runs = <<>>
    /\ running = 0
    /\ normIn \in {<<x>> : x \in NormInputs}
    /\ normOut = <<>>

\* JSON.parse, analyzeMedia's return statement and the fullReport literal
Normalize ==
    /\ normIn # <<>>
    /\ normOut = <<>>
    /\ ~ParseThrows(normIn[1].resp)
    /\ normOut' = <<FullReport(analyzeMediaReturn(ParseJSON(normIn[1].resp)),
                               File(normIn[1].file),
                               DeriveType(File(normIn[1].file).type),
                               calculateFileHash(File(normIn[1].file)),
                               now)>>
    /\ UNCHANGED <<file, analysisState, report, activeTab, visualFilter, apiKey, now,
                   runs, running, normIn>>

NextNorm == Normalize

SpecNorm == InitNorm /\ [][NextNorm]_vars

-----------------------------------------------------------------------------
(* The reports of one session: a report is built at the current clock      *)
(* value and published, the clock moves on, and the next report is built.  *)
(* report is the report published last and normOut the one just built.     *)

\* the longest session followed, in milliseconds: long enough for the clock
\* to come back to the same last six digits
MaxElapsed == 1000600

\* the time between two constructions: a pause of the pipeline, or a longer
\* stretch in which the dashboard stays open
ClockSteps == {TimerDelay, IdModulus}

IdInputs == {[resp |-> r, file |-> f] : r \in {NoText, JsonText(Hostile)}, f \in Files}

InitIds ==
    /\ file = NoFile
    /\ analysisState = IdleState
    /\ report = <<>>
    /\ activeTab = "DASHBOARD"
    /\ visualFilter = "normal"
    /\ apiKey = TRUE
    /\ now = ClockStart
    /\ runs = <<>>
    /\ running = 0
    /\ normIn \in {<<x>> : x \in IdInputs}
    /\ normOut = <<>>

\* setReport(fullReport), line 184
PublishNorm ==
    /\ normOut # <<>>
    /\ report' = normOut
    /\ normOut' = <<>>
    /\ UNCHANGED <<file, analysisState, activeTab, visualFilter, apiKey, now,
                   runs, running, normIn>>

\* Date.now() has moved on by d since the last report was published
ClockAdvances(d) ==
    /\ report # <<>> /\ normOut = <<>>
    /\ now = report[1].timestamp
    /\ now + d <= ClockStart + MaxElapsed
    /\ now' = now + d
    /\ UNCHANGED <<file, analysisState, report, activeTab, visualFilter, apiKey,
                   runs, running, normIn, normOut>>

NextIds ==
    \/ Normalize
    \/ PublishNorm
    \/ \E d \in ClockSteps : ClockAdvances(d)

SpecIds == InitIds /\ [][NextIds]_vars

-----------------------------------------------------------------------------
(* Properties                                                               *)

Failed(r) == r.pc = "done" /\ r.error # <<>>
Succeeded(r) == r.pc = "done" /\ r.error = <<>> /\ r.file # NoFile

\* a run with a file that shared no moment with another run or a file selection
Solo(r) == r.file # NoFile /\ ~r.overlapped /\ ~r.superseded

StageValues == <<0, 20, 40, 50, 90, 100>>
NextStageValue(p, q) ==
    \E k \in 1..(Len(StageValues) - 1) : StageValues[k] = p /\ StageValues[k + 1] = q

\* C1: during a run that is not interleaved with another start or a file
\* selection, progress starts at 0, every step leaves it alone or moves it to
\* the next value of 0, 20, 40, 50, 90, 100 (so it never decreases and skips
\* none), and it is 100 when the run returns successfully.
C1_ProgressSequence ==
    [][\A i \in DOMAIN runs' :
          (Solo(runs'[i]) /\ (i \in DOMAIN runs => InFlight(runs[i]))) =>
             /\ (i \notin DOMAIN runs) =>
                    analysisState'.progress = 0 /\ analysisState'.isAnalyzing
             /\ (i \in DOMAIN runs) =>
                    \/ analysisState'.progress = analysisState.progress
                    \/ NextStageValue(analysisState.progress, analysisState'.progress)
             /\ Succeeded(runs'[i]) => analysisState'.progress = 100]_vars

C1_Witness ==
    \E i \in DOMAIN runs :
        /\ Solo(runs[i]) /\ Succeeded(runs[i])
        /\ analysisState.progress = 100 /\ analysisState.currentStep = "COMPLETE"

\* C2: a call of runAnalysis while isAnalyzing is true is rejected: it leaves
\* analysisState unchanged and starts no pipeline (no digest call).
C2_SingleFlight ==
    [][(analysisState.isAnalyzing /\ Len(runs') > Len(runs)) =>
          /\ analysisState' = analysisState
          /\ ~InFlight(runs'[Len(runs')])
          /\ runs'[Len(runs')].digestCalls = 0]_vars

\* C3: after a file was selected during a run, no step of that run changes
\* analysisState or report.
C3_StaleDiscarded ==
    [][\A i \in DOMAIN runs :
          (runs[i].superseded /\ (running = i \/ running' = i)) =>
             analysisState' = analysisState /\ report' = report]_vars

\* C4: a run that fails returns in a state with currentStep FAILED and
\* isAnalyzing false.
C4_FailedState ==
    [][\A i \in DOMAIN runs :
          (InFlight(runs[i]) /\ Failed(runs'[i])) =>
             analysisState'.currentStep = "FAILED" /\ ~analysisState'.isAnalyzing]_vars

\* C5: a run in which a service failed never writes report: as long as
\* nothing else (a file selection, another run) has written it since the run
\* started, report is what it was when the run started.
C5_FailureIsolation ==
    \A i \in DOMAIN runs :
        (runs[i].error # <<>> /\ runs[i].intact) => report = runs[i].report0

C5_Witness ==
    \E i \in DOMAIN runs :
        /\ Failed(runs[i]) /\ runs[i].intact /\ runs[i].classifyCalls = 1
        /\ runs[i].report0 # <<>> /\ report = runs[i].report0

\* C6: a call of runAnalysis with no file selected changes neither
\* analysisState, report nor activeTab, returns at once with a fulfilled
\* promise, and calls neither service.
C6_InputMissing ==
    [][/\ (file = NoFile /\ Len(runs') > Len(runs)) =>
            /\ analysisState' = analysisState
            /\ report' = report
            /\ activeTab' = activeTab
            /\ runs'[Len(runs')].file = NoFile
       /\ \A i \in DOMAIN runs' :
            runs'[i].file = NoFile =>
                /\ runs'[i].pc = "done" /\ runs'[i].promise = "fulfilled"
                /\ runs'[i].digestCalls = 0 /\ runs'[i].classifyCalls = 0]_vars

C6_Witness ==
    /\ \E i \in DOMAIN runs : runs[i].file = NoFile
    /\ analysisState = IdleState /\ report = <<>>

\* C7: the promise of runAnalysis is never rejected; a run in which a service
\* failed returns with its promise fulfilled.
C7_NoExceptionEscapes ==
    \A i \in DOMAIN runs :
        /\ runs[i].promise # "rejected"
        /\ Failed(runs[i]) => runs[i].promise = "fulfilled"

C7_Witness ==
    \E i, j \in DOMAIN runs :
        /\ Failed(runs[i]) /\ runs[i].error = <<JsonSyntaxError>>
        /\ Failed(runs[j]) /\ runs[j].error[1] \in GenerateErrors
        /\ runs[i].promise = "fulfilled" /\ runs[j].promise = "fulfilled"

\* C8: the report built from a raw payload has every field of ForensicReport,
\* each field the payload omits has its default, and for the payload {} the
\* metadata has exactly the keys originalSize and mimeType.
C8_NormalizationDefaults ==
    normOut # <<>> =>
        LET raw == ParseJSON(normIn[1].resp)
            r == normOut[1]
        IN  /\ DOMAIN r = ReportFields
            /\ ~Has(raw, "authenticityScore") => r.authenticityScore = 0
            /\ ~Has(raw, "isManipulated") => r.isManipulated = FALSE
            /\ ~Has(raw, "semanticMismatchDetected") => r.semanticMismatchDetected = FALSE
            /\ ~Has(raw, "semanticAnalysisText") => r.semanticAnalysisText = ""
            /\ ~Has(raw, "reasoning") => r.reasoning = "Analysis failed."
            /\ ~Has(raw, "manipulationType") => r.manipulationType = <<>>
            /\ ~Has(raw, "ensembleData") => r.ensembleData = <<>>
            /\ ~Has(raw, "suspiciousRegions") => r.suspiciousRegions = <<>>
            /\ raw = EmptyObj => DOMAIN r.metadata = {"originalSize", "mimeType"}

C8_Witness ==
    /\ normOut # <<>>
    /\ normIn[1].resp = JsonText(EmptyObj)
    /\ normOut[1].reasoning = "Analysis failed."

\* the size and type texts of the files, written out
ExpectedSize == [f1 |-> "2.00 MB", f2 |-> "0.13 MB", f3 |-> "0.01 MB",
                 f4 |-> "0.00 MB", f5 |-> "50.00 MB", f6 |-> "1.00 MB"]
ExpectedMime == [f1 |-> "image/png", f2 |-> "video/mp4", f3 |-> "audio/wav",
                 f4 |-> "text/plain", f5 |-> "", f6 |-> "application/x-image"]

\* C9: the report's metadata has every key of the raw metadata other than
\* originalSize and mimeType with its raw value, and originalSize and mimeType
\* are the values computed from the file whatever the raw metadata says.
C9_MetadataOverride ==
    normOut # <<>> =>
        LET raw == ParseJSON(normIn[1].resp)
            rawMeta == IF Has(raw, "metadata") THEN raw.metadata ELSE EmptyObj
            m == normOut[1].metadata
        IN  /\ \A k \in DOMAIN rawMeta \ {"originalSize", "mimeType"} :
                   Has(m, k) /\ m[k] = rawMeta[k]
            /\ m.originalSize = ExpectedSize[normIn[1].file]
            /\ m.mimeType = ExpectedMime[normIn[1].file]

C9_Witness ==
    /\ normOut # <<>>
    /\ Has(ParseJSON(normIn[1].resp), "metadata")
    /\ ParseJSON(normIn[1].resp).metadata = Hostile.metadata
    /\ normOut[1].metadata.originalSize # Hostile.metadata.originalSize
    /\ normOut[1].metadata.estimatedDevice = "Pixel 8"

\* run i publishes its report (line 184)
Publishes(i) == At(i, "L184") /\ report' = runs[i].fullReport /\ report' # <<>>

C11_CompletionInvariant ==
    /\ [](analysisState.currentStep = "COMPLETE" =>
            analysisState.progress = 100 /\ ~analysisState.isAnalyzing /\ report # <<>>)
    /\ [][/\ (analysisState.currentStep # "COMPLETE" /\
               analysisState'.currentStep = "COMPLETE") =>
                 \E i \in DOMAIN runs :
                     /\ running = i /\ runs[i].fullReport # <<>>
                     /\ report' = runs[i].fullReport
                     /\ report'[1].fileName = File(runs[i].file).name
                     /\ report'[1].fileHash = calculateFileHash(File(runs[i].file))
          /\ (analysisState.currentStep = "COMPLETE" /\
               analysisState'.currentStep = "COMPLETE") => report' = report
          /\ (report' # report /\ report' # <<>>) =>
                 \E i \in DOMAIN runs :
                     /\ running = i /\ report' = runs[i].fullReport
                     /\ running' = i /\ runs'[i].pc = "L185"
          /\ \A i \in DOMAIN runs :
                 (running = i /\ runs[i].pc = "L185") =>
                     analysisState'.currentStep = "COMPLETE"]_vars

\* a run that a file selection superseded has completed: the report is the
\* one of its own file, not of the file now selected
C11_Witness ==
    /\ analysisState.currentStep = "COMPLETE" /\ report # <<>>
    /\ \E i \in DOMAIN runs :
          /\ Succeeded(runs[i]) /\ runs[i].superseded
          /\ file # runs[i].file
          /\ report[1].fileName = File(runs[i].file).name

\* the log line of a caught error
ErrorLine(e) == "[time] CRITICAL ERROR: " \o ErrorText(e)

\* C12: in the failure transition of a run (from the moment its error is
\* raised to its return) the step that raises changes nothing of
\* analysisState, the first step of the catch block appends exactly the line
\* with the error's description to the log as it is, no other step touches
\* the log, no step changes progress, and the log ends with that line when
\* the run returns.
C12_FailureKeepsHistory ==
    [][\A i \in DOMAIN runs :
          /\ (InFlight(runs[i]) /\ runs[i].error = <<>> /\ runs'[i].error # <<>>) =>
                 analysisState' = analysisState
          /\ (running = i /\ runs[i].error # <<>>) =>
                 /\ analysisState'.progress = analysisState.progress
                 /\ IF runs[i].pc = "L191"
                    THEN analysisState'.logs =
                            Append(analysisState.logs, ErrorLine(runs[i].error[1]))
                    ELSE analysisState'.logs = analysisState.logs
                 /\ Failed(runs'[i]) =>
                        /\ analysisState'.logs # <<>>
                        /\ analysisState'.logs[Len(analysisState'.logs)] =
                              ErrorLine(runs[i].error[1])]_vars

\* a run failed in the classification call: the log has the lines of the
\* whole run and then the error line, progress is still 50
C12_Witness ==
    /\ running = 0
    /\ analysisState.progress = 50 /\ ~analysisState.isAnalyzing
    /\ Len(analysisState.logs) = 7
    /\ analysisState.logs[1] = "Initializing core modules..."
    /\ \E i \in DOMAIN runs :
          /\ Failed(runs[i]) /\ runs[i].classifyCalls = 1
          /\ analysisState.logs[7] = ErrorLine(runs[i].error[1])

\* C13: every step of a run that changes currentStep or progress appends
\* exactly one log line in that same step (the start of a run, which sets
\* INIT, leaves a log of one line), and every step of a run that appends a
\* log line outside the catch block changes currentStep or progress.
C13_AtomicTransitions ==
    [][\A i \in DOMAIN runs' :
          ((running = i \/ i \notin DOMAIN runs) /\ InFlight(runs'[i])
             /\ runs'[i].error = <<>>) =>
             LET staged == \/ analysisState'.progress # analysisState.progress
                           \/ analysisState'.currentStep # analysisState.currentStep
                 logged == analysisState'.logs # analysisState.logs
             IN  /\ staged <=> logged
                 /\ logged =>
                       \/ i \notin DOMAIN runs /\ Len(analysisState'.logs) = 1
                       \/ /\ Len(analysisState'.logs) = Len(analysisState.logs) + 1
                          /\ SubSeq(analysisState'.logs, 1, Len(analysisState.logs)) =
                                analysisState.logs]_vars

IsPrefix(a, b) == Len(a) <= Len(b) /\ SubSeq(b, 1, Len(a)) = a

\* C14: in every step the old log is a prefix of the new log, or the step is
\* a file selection and the log becomes empty, or the step is the start of a
\* run and the log becomes the single INIT line.
C14_LogAppendOnly ==
    [][\/ IsPrefix(analysisState.logs, analysisState'.logs)
       \/ analysisState'.logs = <<>> /\ \E sel \in Files : handleFileSelect(sel)
       \/ analysisState'.logs = InitState.logs /\ runAnalysis]_vars

\* a second run, started after the first one returned, has appended two
\* lines to the log that its start cut back to the INIT line
C14_Witness ==
    /\ Len(analysisState.logs) = 3
    /\ analysisState.logs[1] = "Initializing core modules..."
    /\ \E i, j \in DOMAIN runs :
          /\ i < j /\ Succeeded(runs[i]) /\ InFlight(runs[j]) /\ ~runs[j].overlapped
          /\ runs[j].hash # <<>>

StageRank == [IDLE |-> 0, INIT |-> 1, HASHING |-> 2, LOADING_MODELS |-> 3,
              INFERENCE |-> 4, COMPLETE |-> 5]

\* C15: a run calls the classification service at most once, and only when
\* its digest call has returned the digest of its file, both of its timers
\* have fired and it has no error (so never after a digest failure); for a
\* run that is not interleaved with another start or a file selection the
\* call is made at progress 50 in LOADING_MODELS, the run starts at INIT and
\* every step keeps currentStep or moves it to the next of INIT, HASHING,
\* LOADING_MODELS, INFERENCE, COMPLETE.
C15_StageOrdering ==
    /\ [](\A i \in DOMAIN runs :
            /\ runs[i].classifyCalls > 0 =>
                  runs[i].digestCalls = 1 /\ runs[i].pauses = 2
            /\ (runs[i].error # <<>> /\ runs[i].error[1] \in DigestErrors) =>
                  runs[i].classifyCalls = 0)
    /\ [][\A i \in DOMAIN runs' :
            /\ (i \in DOMAIN runs /\ runs'[i].classifyCalls > runs[i].classifyCalls) =>
                  /\ runs[i].classifyCalls = 0 /\ runs'[i].classifyCalls = 1
                  /\ runs[i].hash = calculateFileHash(File(runs[i].file))
                  /\ runs[i].pauses = 2 /\ runs[i].error = <<>>
                  /\ Solo(runs[i]) =>
                        /\ analysisState.progress = 50
                        /\ analysisState.currentStep = "LOADING_MODELS"
            /\ (i \notin DOMAIN runs /\ Solo(runs'[i])) =>
                  analysisState'.currentStep = "INIT"
            /\ (i \in DOMAIN runs /\ InFlight(runs[i]) /\ Solo(runs'[i])) =>
                  StageRank[analysisState'.currentStep] -
                     StageRank[analysisState.currentStep] \in {0, 1}]_vars

\* a run on its own is waiting for the classification service
C15_Witness ==
    \E i \in DOMAIN runs :
        /\ Solo(runs[i]) /\ InFlight(runs[i]) /\ running = 0
        /\ runs[i].classifyCalls = 1 /\ runs[i].pauses = 2
        /\ analysisState.progress = 50

\* C16: whenever a selection event can be delivered (no run is executing),
\* a selection of a file is handled and can only end with that file
\* selected, analysisState the fresh idle instance and report null,
\* whatever the state before; and a selection event with no file cannot
\* change file, report or analysisState.
C16_SelectResets ==
    running = 0 =>
        /\ \A sel \in Files :
              /\ ENABLED handleFileSelect(sel)
              /\ ~ENABLED (handleFileSelect(sel) /\
                            ~(file' = sel /\ analysisState' = IdleState /\ report' = <<>>))
        /\ ENABLED handleFileSelect(NoFile)
        /\ ~ENABLED (handleFileSelect(NoFile) /\
                      (file' # file \/ report' # report \/ analysisState' # analysisState))

\* a file was selected during a run that had started with a published report
\* on screen: the state is idle again and the report is gone
C16_Witness ==
    /\ running = 0 /\ analysisState = IdleState /\ report = <<>>
    /\ \E i \in DOMAIN runs :
          runs[i].superseded /\ runs[i].report0 # <<>> /\ file # runs[i].file

\* C17: when generateContent answers with text that is not JSON, the run goes
\* on without an error, with the result analyzeMedia returns for {}.
C17_ParseFailureIsEmpty ==
    [][\A i \in DOMAIN runs :
          GenerateResolves(i, Garbage) =>
             /\ runs'[i].error = <<>>
             /\ runs'[i].aiResult = <<analyzeMediaReturn(EmptyObj)>>]_vars

\* C18: two reports built at two distinct clock values have different ids
\* (stated for a report and the one published before it).
C18_IdUnique ==
    (report # <<>> /\ normOut # <<>> /\ report[1].timestamp # normOut[1].timestamp) =>
        report[1].id # normOut[1].id

Hung(r) == r.pc = "hung"

\* C19: under the scheduling of SpecFair every run that was started is,
\* again and again (hence, as a returned run stays returned, from some moment
\* on), returned or stuck in a call of analyzeMedia that never returns; the
\* step in which a run returns ends in a state with isAnalyzing false; and
\* isAnalyzing is false again and again unless some call of analyzeMedia
\* never returns.
C19_Termination ==
    /\ \A i \in RunIds :
          []<>(i \in DOMAIN runs => (Hung(runs[i]) \/ ~InFlight(runs[i])))
    /\ [][\A i \in DOMAIN runs :
            (InFlight(runs[i]) /\ ~InFlight(runs'[i])) => ~analysisState'.isAnalyzing]_vars
    /\ []<>(\/ ~analysisState.isAnalyzing
            \/ \E i \in DOMAIN runs : Hung(runs[i]))

\* two runs have returned, one after a rejected classification call and one
\* with a report, and isAnalyzing is false
C19_Witness ==
    /\ running = 0 /\ ~analysisState.isAnalyzing
    /\ \E i, j \in DOMAIN runs :
          /\ Failed(runs[i]) /\ runs[i].error[1] \in GenerateErrors
          /\ Succeeded(runs[j]) /\ runs[j].overlapped

\* the kind of each file of FileTable, written out
ExpectedKind == [f1 |-> "IMAGE", f2 |-> "VIDEO", f3 |-> "AUDIO",
                 f4 |-> "UNKNOWN", f5 |-> "UNKNOWN", f6 |-> "UNKNOWN"]

\* C20: when a run calls the classification service, its type local (the
\* kind it passes) is the kind of its file: IMAGE, VIDEO or AUDIO for a
\* content type that starts with image, video or audio, else UNKNOWN; the
\* local does not change from the call to the construction of the report;
\* and the fileType of the report the run builds and publishes is that kind.
C20_MediaKind ==
    [][\A i \in DOMAIN runs :
          /\ runs'[i].classifyCalls > runs[i].classifyCalls =>
                runs[i].type = ExpectedKind[runs[i].file]
          /\ (runs[i].classifyCalls > 0 /\ InFlight(runs'[i]) /\ runs'[i].error = <<>>) =>
                runs'[i].type = runs[i].type
          /\ (runs[i].fullReport = <<>> /\ runs'[i].fullReport # <<>>) =>
                /\ runs'[i].fullReport[1].fileType = runs[i].type
                /\ runs'[i].fullReport[1].fileType = ExpectedKind[runs[i].file]
          /\ (running = i /\ report' # report) =>
                report'[1].fileType = ExpectedKind[runs[i].file]]_vars

\* a report was published for the file whose type has "image" inside
C20_Witness ==
    /\ file = "f6" /\ report # <<>>
    /\ report[1].fileType = "UNKNOWN"
    /\ report[1].metadata.mimeType = "application/x-image"

\* C21: with the rendered controls only, a run starts only in a state with
\* a file selected, report null and isAnalyzing false, and then no run is in
\* flight and every earlier run has failed; file changes only from null, and
\* then no run has been started; so no run overlaps another or a file
\* selection, every run has a file, at most one run is in flight, and no run
\* follows a run that published a report.
C21_UIGating ==
    /\ [](/\ \A i \in DOMAIN runs :
                /\ runs[i].file # NoFile
                /\ ~runs[i].overlapped /\ ~runs[i].superseded
                /\ Succeeded(runs[i]) => i = Len(runs)
          /\ Cardinality({i \in DOMAIN runs : InFlight(runs[i])}) <= 1)
    /\ [][/\ Len(runs') > Len(runs) =>
               /\ file # NoFile /\ report = <<>> /\ ~analysisState.isAnalyzing
               /\ \A j \in DOMAIN runs : Failed(runs[j])
          /\ file' # file => (file = NoFile /\ runs = <<>>)]_vars

\* a second run is in flight; the first one failed in the classification call
C21_Witness ==
    /\ Len(runs) = 2 /\ running = 0
    /\ Failed(runs[1]) /\ runs[1].classifyCalls = 1
    /\ InFlight(runs[2]) /\ runs[2].digestCalls = 1
    /\ analysisState.isAnalyzing

====
